---- MODULE Spec2Model ----
(***************************************************************************)
(* Kernel memory-region authority of core/hle/kernel/k_memory_region.h:    *)
(* KMemoryRegion (the address-range record), KMemoryRegionAllocator (the   *)
(* bump arena) and KMemoryRegionTree (the ordered, non-overlapping index). *)
(*                                                                         *)
(* The header declares KMemoryRegionTree::InsertDirectly, ::Insert and     *)
(* ::GetRandomAlignedRegion; their bodies, and the intrusive red-black     *)
(* tree they sit on, are defined in other translation units.  Those parts  *)
(* follow the design document, section 4.3, and are marked as such below.  *)
(***************************************************************************)
EXTENDS Integers, Sequences, FiniteSets, TLC

VARIABLES region_heap, num_regions, m_tree, fatal, call, last, calls

vars == <<region_heap, num_regions, m_tree, fatal, call, last, calls>>

(***************************************************************************)
(* Bounds.  u64 is scaled down to U64Bits bits, so that the wrap of        *)
(* last_address + 1 and of size + 2 * guard_size is reachable; the arena   *)
(* capacity (200 in the source) is scaled down likewise so that exhaustion *)
(* is reachable.  The managed address range is 0..MaxAddress.              *)
(***************************************************************************)
U64Bits == 3

MaxAddress == 3

MaxMemoryRegions == 3

MaxTypeId == 3

U64Modulus == 2 ^ U64Bits

U64Max == U64Modulus - 1

Addresses == 0..MaxAddress

TypeIds == 0..MaxTypeId

Attrs == {0, 1}

Slots == 0..(MaxMemoryRegions - 1)

NULL == -1

Wrap(x) == x % U64Modulus

RECURSIVE BitOr(_, _)
BitOr(a, b) ==
    IF a = 0 THEN b
    ELSE IF b = 0 THEN a
    ELSE (IF a % 2 = 1 \/ b % 2 = 1 THEN 1 ELSE 0) + 2 * BitOr(a \div 2, b \div 2)

(***************************************************************************)
(* Calls.  call is the invocation the kernel has made and that has not yet *)
(* run (its operation and arguments); last is the operation that has run   *)
(* and the value it returned, until the caller takes it.  A fatal          *)
(* assertion ends the process: the model records it in fatal and takes no  *)
(* further step.                                                           *)
(***************************************************************************)
NoCall == [op |-> "None"]

NoReturn == [op |-> "None", ret |-> NULL]

\* calls counts the invocations that draw on the arena; a run makes at most
\* MaxCalls invocations of the tree's two inserting operations
Counted == {"Allocate", "InsertDirectly", "Insert"}

Capped == {"InsertDirectly", "Insert"}

MaxCalls == 3

Invoke(c) ==
    /\ ~fatal
    /\ call = NoCall
    /\ last.op = "None"
    /\ c.op \in Capped => calls < MaxCalls
    /\ call' = c
    /\ calls' = IF c.op \in Counted THEN calls + 1 ELSE calls
    /\ UNCHANGED <<region_heap, num_regions, m_tree, fatal, last>>

\* the caller takes the returned value
Return ==
    /\ ~fatal
    /\ call = NoCall
    /\ last.op # "None"
    /\ last' = NoReturn
    /\ UNCHANGED <<region_heap, num_regions, m_tree, fatal, call, calls>>

(***************************************************************************)
(* KMemoryRegion                                                           *)
(***************************************************************************)
DefaultRegion ==
    [address |-> 0, last_address |-> 0, pair_address |-> 0,
     attributes |-> 0, type_id |-> 0]

Region2(address_, last_address_) ==
    [DefaultRegion EXCEPT !.address = address_, !.last_address = last_address_]

Region5(address_, last_address_, pair_address_, attributes_, type_id_) ==
    [address |-> address_, last_address |-> last_address_,
     pair_address |-> pair_address_, attributes |-> attributes_,
     type_id |-> type_id_]

\* the pair address left at zero
Region4ZeroPair(address_, last_address_, attributes_, type_id_) ==
    Region5(address_, last_address_, 0, attributes_, type_id_)

\* the attributes and the type id passed on in each other's place
Region4Swapped(address_, last_address_, attributes_, type_id_) ==
    Region5(address_, last_address_, U64Max, type_id_, attributes_)

Region4(address_, last_address_, attributes_, type_id_) ==
    Region5(address_, last_address_, U64Max, attributes_, type_id_)

GetAddress(r) == r.address

GetPairAddress(r) == r.pair_address

\* the end address handed out as the last address
GetLastAddressIsEnd(r) == r.last_address + 1

GetLastAddress(r) == r.last_address

\* the end address computed without the 64-bit wrap
GetEndAddressNoWrap(r) == r.last_address + 1

GetEndAddress(r) == Wrap(GetLastAddress(r) + 1)

\* the last address taken for the end address
GetSizeFromLast(r) == Wrap(r.last_address - r.address + U64Modulus)

GetSize(r) == Wrap(GetEndAddress(r) - GetAddress(r) + U64Modulus)

GetAttributes(r) == r.attributes

GetType(r) == r.type_id

\* the span's last address taken as exclusive
CompareExclusiveLast(lhs, rhs) ==
    IF lhs.address < rhs.address THEN -1
    ELSE IF lhs.address < rhs.last_address THEN 0
    ELSE 1

\* equal only on the same start address
CompareStartOnly(lhs, rhs) ==
    IF lhs.address < rhs.address THEN -1
    ELSE IF lhs.address = rhs.address THEN 0
    ELSE 1

Compare(lhs, rhs) ==
    IF GetAddress(lhs) < GetAddress(rhs) THEN -1
    ELSE IF GetAddress(lhs) <= GetLastAddress(rhs) THEN 0
    ELSE 1

\* the pair address and the last address assigned crosswise
ResetCrossed(r, a, la, p, attr, t) ==
    [r EXCEPT !.address = a, !.pair_address = la, !.last_address = p,
              !.attributes = attr, !.type_id = t]

\* the span cut back to its first address
ResetNoLast(r, a, la, p, attr, t) ==
    [r EXCEPT !.address = a, !.pair_address = p, !.last_address = a,
              !.attributes = attr, !.type_id = t]

\* the attributes left as they were
ResetKeepsAttributes(r, a, la, p, attr, t) ==
    [r EXCEPT !.address = a, !.pair_address = p, !.last_address = la,
              !.type_id = t]

Reset(r, a, la, p, attr, t) ==
    [r EXCEPT !.address = a, !.pair_address = p, !.last_address = la,
              !.attributes = attr, !.type_id = t]

\* the superset test turned around
IsDerivedFromReversed(r, type) == BitOr(r.type_id, type) = type

IsDerivedFrom(r, type) == BitOr(GetType(r), type) = GetType(r)

HasTypeAttribute(r, attr) == BitOr(GetType(r), attr) = GetType(r)

\* the derivation test turned around
CanDeriveReversed(r, type) == BitOr(r.type_id, type) = r.type_id

CanDerive(r, type) == BitOr(GetType(r), type) = type

\* SetType on the region in arena slot call.slot
SetType ==
    /\ call.op = "SetType"
    /\ IF CanDerive(region_heap[call.slot], call.type)
       THEN /\ region_heap' = [region_heap EXCEPT ![call.slot].type_id = call.type]
            /\ fatal' = FALSE
       ELSE /\ fatal' = TRUE
            /\ UNCHANGED region_heap
    /\ last' = [op |-> "SetType", ret |-> call.slot]
    /\ call' = NoCall
    /\ UNCHANGED <<num_regions, m_tree, calls>>

(***************************************************************************)
(* KMemoryRegionAllocator                                                  *)
(***************************************************************************)
\* the bound checked one past the capacity
AllocateInBoundsInclusive(n) == n <= MaxMemoryRegions

\* ASSERT(this->num_regions < MaxMemoryRegions)
AllocateInBounds(n) == n < MaxMemoryRegions

\* the slot taken again instead of the next free one
AllocateSlotPrevious(n) == IF n = 0 THEN 0 ELSE n - 1

\* region_heap[this->num_regions++]: the slot is the count before the increment
AllocateSlot(n) == n

\* new (region) KMemoryRegion(args...)
AllocateHeap(heap, n, r) == [heap EXCEPT ![AllocateSlot(n)] = r]

Allocate ==
    /\ call.op = "Allocate"
    /\ IF AllocateInBounds(num_regions)
       THEN /\ region_heap' = AllocateHeap(region_heap, num_regions, call.region)
            /\ num_regions' = num_regions + 1
            /\ fatal' = FALSE
            /\ last' = [op |-> "Allocate", ret |-> AllocateSlot(num_regions)]
       ELSE /\ fatal' = TRUE
            /\ last' = [op |-> "Allocate", ret |-> NULL]
            /\ UNCHANGED <<region_heap, num_regions>>
    /\ call' = NoCall
    /\ UNCHANGED <<m_tree, calls>>

(***************************************************************************)
(* The ordered index.  m_tree is the in-order sequence of the arena slots  *)
(* linked into the tree.                                                   *)
(***************************************************************************)
TreeSlots(tree) == {tree[i] : i \in 1..Len(tree)}

\* insert(ref): the node is linked after every node it does not sort before
TreeInsertPos(heap, tree, slot) ==
    Cardinality({i \in 1..Len(tree) : Compare(heap[slot], heap[tree[i]]) >= 0})

TreeInsert(heap, tree, slot) ==
    LET k == TreeInsertPos(heap, tree, slot)
    IN  SubSeq(tree, 1, k) \o <<slot>> \o SubSeq(tree, k + 1, Len(tree))

\* erase(it)
TreeErase(tree, slot) == SelectSeq(tree, LAMBDA s : s # slot)

\* find(ref): ordered search steered by Compare(probe, node)
RECURSIVE TreeFind(_, _, _, _, _)
TreeFind(heap, tree, probe, lo, hi) ==
    IF lo > hi THEN NULL
    ELSE LET mid == (lo + hi) \div 2
             c == Compare(probe, heap[tree[mid]])
         IN  IF c = 0 THEN tree[mid]
             ELSE IF c < 0 THEN TreeFind(heap, tree, probe, lo, mid - 1)
             ELSE TreeFind(heap, tree, probe, mid + 1, hi)

FindModifiable(heap, tree, address) ==
    TreeFind(heap, tree, Region4(address, address, 0, 0), 1, Len(tree))

Find(heap, tree, address) ==
    TreeFind(heap, tree, Region4(address, address, 0, 0), 1, Len(tree))

(***************************************************************************)
(* KMemoryRegionTree::InsertDirectly and ::Insert (bodies outside the      *)
(* header, after the design document, section 4.3).                        *)
(***************************************************************************)
\* the caller's guarantee for bulk seeding: the new range meets no stored one
DisjointFromStored(heap, tree, address, last_address) ==
    \A s \in TreeSlots(tree) :
        last_address < heap[s].address \/ heap[s].last_address < address

InvokeInsertDirectly(address, last_address, attr, type_id) ==
    /\ address <= last_address
    /\ DisjointFromStored(region_heap, m_tree, address, last_address)
    /\ Invoke([op |-> "InsertDirectly", address |-> address,
               last_address |-> last_address, attr |-> attr, type_id |-> type_id])

InsertDirectly ==
    /\ call.op = "InsertDirectly"
    /\ IF AllocateInBounds(num_regions)
       THEN \E heap \in {AllocateHeap(region_heap, num_regions,
                            Region4(call.address, call.last_address,
                                    call.attr, call.type_id))} :
                /\ region_heap' = heap
                /\ num_regions' = num_regions + 1
                /\ m_tree' = TreeInsert(heap, m_tree, AllocateSlot(num_regions))
                /\ fatal' = FALSE
                /\ last' = [op |-> "InsertDirectly",
                            ret |-> AllocateSlot(num_regions)]
       ELSE /\ fatal' = TRUE
            /\ last' = [op |-> "InsertDirectly", ret |-> NULL]
            /\ UNCHANGED <<region_heap, num_regions, m_tree>>
    /\ call' = NoCall
    /\ calls' = calls

\* the split of the found region into its 1-3 pieces
InsertSplit(heap, n, tree, found, address, size, type_id, new_attr, old_attr) ==
    LET old == heap[found]
        old_address == GetAddress(old)
        old_last == GetLastAddress(old)
        old_pair == GetPairAddress(old)
        old_type == GetType(old)
        inserted_region_end == address + size
        inserted_region_last == inserted_region_end - 1
        t0 == TreeErase(tree, found)
        reuse == old_address = address
        h1 == [heap EXCEPT ![found] =
                  IF reuse
                  THEN Reset(old, address, inserted_region_last, old_pair, new_attr, type_id)
                  ELSE Reset(old, old_address, address - 1, old_pair, old_attr, old_type)]
        t1 == TreeInsert(h1, t0, found)
        okMid == reuse \/ AllocateInBounds(n)
        h2 == IF reuse THEN h1
              ELSE AllocateHeap(h1, n, Region5(address, inserted_region_last,
                                               old_pair, new_attr, type_id))
        n2 == IF reuse THEN n ELSE n + 1
        needAfter == old_last # inserted_region_last
        okAfter == ~needAfter \/ AllocateInBounds(n2)
        h3 == IF needAfter
              THEN AllocateHeap(h2, n2, Region5(inserted_region_end, old_last,
                                                old_pair, old_attr, old_type))
              ELSE h2
        n3 == IF needAfter THEN n2 + 1 ELSE n2
    IN  IF ~(okMid /\ okAfter)
        THEN [status |-> "fatal", heap |-> heap, num |-> n, tree |-> tree]
        ELSE [status |-> "true", heap |-> h3, num |-> n3,
              tree |-> LET t2 == IF reuse THEN t1
                                 ELSE TreeInsert(h2, t1, AllocateSlot(n))
                       IN  IF needAfter THEN TreeInsert(h3, t2, AllocateSlot(n2))
                           ELSE t2]

InsertResult(heap, n, tree, address, size, type_id, new_attr, old_attr) ==
    LET found == FindModifiable(heap, tree, address)
        same == [status |-> "false", heap |-> heap, num |-> n, tree |-> tree]
    IN  IF found = NULL THEN same
        ELSE IF GetLastAddress(heap[found]) < address + size - 1 THEN same
        ELSE IF GetAttributes(heap[found]) # old_attr
                \/ ~CanDerive(heap[found], type_id)
             THEN [same EXCEPT !.status = "fatal"]
        ELSE InsertSplit(heap, n, tree, found, address, size, type_id, new_attr, old_attr)

Insert ==
    /\ call.op = "Insert"
    /\ \E res \in {InsertResult(region_heap, num_regions, m_tree, call.address,
                                call.size, call.type_id, call.new_attr,
                                call.old_attr)} :
           /\ region_heap' = res.heap
           /\ num_regions' = res.num
           /\ m_tree' = res.tree
           /\ fatal' = (res.status = "fatal")
           /\ last' = [op |-> "Insert", ret |-> res.status]
    /\ call' = NoCall
    /\ calls' = calls

DoFind ==
    /\ call.op = "Find"
    /\ last' = [op |-> "Find", ret |-> Find(region_heap, m_tree, call.address)]
    /\ call' = NoCall
    /\ UNCHANGED <<region_heap, num_regions, m_tree, fatal, calls>>

DoFindModifiable ==
    /\ call.op = "FindModifiable"
    /\ last' = [op |-> "FindModifiable",
                ret |-> FindModifiable(region_heap, m_tree, call.address)]
    /\ call' = NoCall
    /\ UNCHANGED <<region_heap, num_regions, m_tree, fatal, calls>>

(***************************************************************************)
(* The address space under seeding and splitting.                          *)
(***************************************************************************)
MaxSize == 2

Sizes == 1..MaxSize

\* type ids of the layout: 1 derives from 0, 0 does not derive from 1
LayoutTypes == {0, 1}

InsertCalls ==
    [op : {"Insert"}, address : Addresses, size : Sizes, type_id : LayoutTypes,
     new_attr : Attrs, old_attr : Attrs]

Init ==
    /\ region_heap = [s \in Slots |-> DefaultRegion]
    /\ num_regions = 0
    /\ m_tree = <<>>
    /\ fatal = FALSE
    /\ call = NoCall
    /\ last = NoReturn
    /\ calls = 0

Next ==
    \/ \E a \in Addresses, la \in Addresses, t \in LayoutTypes :
          InvokeInsertDirectly(a, la, 0, t)
    \/ \E c \in InsertCalls : Invoke(c)
    \/ InsertDirectly
    \/ Insert
    \/ Return

Spec == Init /\ [][Next]_vars

(***************************************************************************)
(* KMemoryRegionTree::GetRandomAlignedRegion (body outside the header,     *)
(* after the design document, section 4.3): any aligned address whose      *)
(* range of the given size fits a stored region derived from the type;     *)
(* fatal when there is none.  A request of size 0 has no range to place.   *)
(***************************************************************************)
RandomCandidates(heap, tree, size, alignment, type_id) ==
    {r \in 0..U64Max :
        /\ size >= 1
        /\ r % alignment = 0
        /\ \E s \in TreeSlots(tree) :
              /\ IsDerivedFrom(heap[s], type_id)
              /\ GetAddress(heap[s]) <= r
              /\ r + size - 1 <= GetLastAddress(heap[s])}

GetRandomAlignedRegion ==
    /\ call.op = "GetRandomAlignedRegion"
    /\ \E cands \in {RandomCandidates(region_heap, m_tree, call.size,
                                      call.alignment, call.type_id)} :
          IF cands = {}
          THEN /\ fatal' = TRUE
               /\ last' = [op |-> "GetRandomAlignedRegion", ret |-> NULL]
          ELSE /\ fatal' = FALSE
               /\ \E r \in cands :
                     last' = [op |-> "GetRandomAlignedRegion", ret |-> r]
    /\ call' = NoCall
    /\ UNCHANGED <<region_heap, num_regions, m_tree, calls>>

\* one guard instead of two added to the request
GuardedSizeOneSide(size, guard_size) == Wrap(size + guard_size)

\* size + 2 * guard_size
GuardedSize(size, guard_size) == Wrap(size + 2 * guard_size)

\* ... + guard_size
GuardedAddress(base, guard_size) == Wrap(base + guard_size)

GetRandomAlignedRegionWithGuard ==
    /\ call.op = "GetRandomAlignedRegionWithGuard"
    /\ \E cands \in {RandomCandidates(region_heap, m_tree,
                                      GuardedSize(call.size, call.guard_size),
                                      call.alignment, call.type_id)} :
          IF cands = {}
          THEN /\ fatal' = TRUE
               /\ last' = [op |-> "GetRandomAlignedRegionWithGuard", ret |-> NULL]
          ELSE /\ fatal' = FALSE
               /\ \E r \in cands :
                     last' = [op |-> "GetRandomAlignedRegionWithGuard",
                              ret |-> GuardedAddress(r, call.guard_size)]
    /\ call' = NoCall
    /\ UNCHANGED <<region_heap, num_regions, m_tree, calls>>

(***************************************************************************)
(* Lookup and random placement over seeded trees.                          *)
(***************************************************************************)
MaxAlign == 2

MaxGuard == 4

Aligns == 1..MaxAlign

Guards == 0..MaxGuard

LookupCalls == [op : {"Find", "FindModifiable"}, address : Addresses]

RandomCalls ==
    [op : {"GetRandomAlignedRegion"}, size : Sizes, alignment : Aligns,
     type_id : LayoutTypes]

GuardCalls ==
    [op : {"GetRandomAlignedRegionWithGuard"}, size : Sizes, alignment : Aligns,
     type_id : LayoutTypes, guard_size : Guards]

NextLookup ==
    \/ \E a \in Addresses, la \in Addresses, t \in LayoutTypes :
          InvokeInsertDirectly(a, la, 0, t)
    \/ \E c \in LookupCalls \cup RandomCalls \cup GuardCalls : Invoke(c)
    \/ InsertDirectly
    \/ DoFind
    \/ DoFindModifiable
    \/ GetRandomAlignedRegion
    \/ GetRandomAlignedRegionWithGuard
    \/ Return

SpecLookup == Init /\ [][NextLookup]_vars

(***************************************************************************)
(* The arena alone: Allocate with each constructor of KMemoryRegion.       *)
(***************************************************************************)
AllocateCalls ==
    [op : {"Allocate"},
     region : {DefaultRegion, Region2(0, 1), Region4(1, 2, 1, 1),
               Region5(2, U64Max, 0, 0, 2)}]

NextAlloc ==
    \/ \E c \in AllocateCalls : Invoke(c)
    \/ Allocate
    \/ Return

SpecAlloc == Init /\ [][NextAlloc]_vars

(***************************************************************************)
(* Regions of the arena under retyping.                                    *)
(***************************************************************************)
TypedCalls ==
    [op : {"Allocate"}, region : {Region4(0, 1, 0, t) : t \in TypeIds \ {MaxTypeId}}]

SetTypeCalls == [op : {"SetType"}, slot : Slots, type : TypeIds]

NextRegion ==
    \/ \E c \in TypedCalls : Invoke(c)
    \/ \E c \in SetTypeCalls : c.slot < num_regions /\ Invoke(c)
    \/ Allocate
    \/ SetType
    \/ Return

SpecRegion == Init /\ [][NextRegion]_vars

(***************************************************************************)
(* Properties of the address space.                                        *)
(***************************************************************************)
SpanContains(r, a) == r.address <= a /\ a <= r.last_address

Holders(heap, tree, a) == {s \in TreeSlots(tree) : SpanContains(heap[s], a)}

NoDuplicates(tree) == Cardinality(TreeSlots(tree)) = Len(tree)

FullyCovered == \A a \in Addresses : Holders(region_heap, m_tree, a) # {}

\* C1: after disjoint insert_directly calls and any insert calls, every two
\* distinct regions stored in the tree have spans that do not intersect.
C1_NonOverlap ==
    /\ NoDuplicates(m_tree)
    /\ \A i \in TreeSlots(m_tree), j \in TreeSlots(m_tree) :
          i # j => \/ region_heap[i].last_address < region_heap[j].address
                   \/ region_heap[j].last_address < region_heap[i].address

C1_Witness ==
    /\ last.op = "Insert" /\ last.ret = "true"
    /\ Len(m_tree) = 3
    /\ \E s \in TreeSlots(m_tree) : region_heap[s].attributes = 1

\* C2: once every address of the managed range lies in a stored region, every
\* step keeps every address of the range in exactly one stored region.
C2_Coverage ==
    [][FullyCovered =>
         \A a \in Addresses :
             Cardinality(Holders(region_heap', m_tree', a)) = 1]_vars

C2_Witness ==
    /\ FullyCovered
    /\ last.op = "Insert" /\ last.ret = "true"
    /\ Len(m_tree) = 3

\* what split preservation expects of insert(a, n, t, na, oa) on the stored
\* region in slot s: the pieces, and every other region left as it was
SplitPieces(old, a, n, t, na) ==
    (IF a > old.address
     THEN {[address |-> old.address, last_address |-> a - 1,
            attributes |-> old.attributes, type_id |-> old.type_id]}
     ELSE {})
    \cup {[address |-> a, last_address |-> a + n - 1,
           attributes |-> na, type_id |-> t]}
    \cup (IF a + n - 1 < old.last_address
          THEN {[address |-> a + n, last_address |-> old.last_address,
                 attributes |-> old.attributes, type_id |-> old.type_id]}
          ELSE {})

Shape(r) ==
    [address |-> r.address, last_address |-> r.last_address,
     attributes |-> r.attributes, type_id |-> r.type_id]

SplitHolds(s, a, n, t, na) ==
    LET others == TreeSlots(m_tree) \ {s}
        fresh == TreeSlots(m_tree') \ others
    IN  /\ last'.ret = "true"
        /\ NoDuplicates(m_tree')
        /\ others \subseteq TreeSlots(m_tree')
        /\ \A o \in others : region_heap'[o] = region_heap[o]
        /\ {Shape(region_heap'[f]) : f \in fresh}
              = SplitPieces(region_heap[s], a, n, t, na)
        /\ Cardinality(fresh)
              = Cardinality(SplitPieces(region_heap[s], a, n, t, na))

InsideStored(s, a, n, oa) ==
    /\ s \in TreeSlots(m_tree)
    /\ region_heap[s].address <= a
    /\ a + n - 1 <= region_heap[s].last_address
    /\ region_heap[s].attributes = oa

\* C3 as stated: insert into a stored region [A, B] with attribute Old always
\* returns true and leaves exactly prefix, middle and suffix.
C3_AsStated ==
    [][\A s \in Slots :
          (Insert /\ InsideStored(s, call.address, call.size, call.old_attr))
              => SplitHolds(s, call.address, call.size, call.type_id,
                            call.new_attr)]_vars

\* C3 (amended): the same, for a type the region can derive (T0 | T1 = T1)
\* and an arena with room for the pieces beyond the first.
C3_SplitPreservation ==
    [][\A s \in Slots :
          (/\ Insert
           /\ InsideStored(s, call.address, call.size, call.old_attr)
           /\ BitOr(region_heap[s].type_id, call.type_id) = call.type_id
           /\ num_regions
                + Cardinality(SplitPieces(region_heap[s], call.address, call.size,
                                          call.type_id, call.new_attr)) - 1
                <= MaxMemoryRegions)
              => SplitHolds(s, call.address, call.size, call.type_id,
                            call.new_attr)]_vars

C3_Witness ==
    /\ last.op = "Insert" /\ last.ret = "true"
    /\ Len(m_tree) = 3
    /\ \E s \in TreeSlots(m_tree) :
          /\ region_heap[s].address = 1 /\ region_heap[s].last_address = 2
          /\ region_heap[s].attributes = 1 /\ region_heap[s].type_id = 1
    /\ \E s \in TreeSlots(m_tree) : Shape(region_heap[s]) =
          [address |-> 0, last_address |-> 0, attributes |-> 0, type_id |-> 0]
    /\ \E s \in TreeSlots(m_tree) : Shape(region_heap[s]) =
          [address |-> 3, last_address |-> 3, attributes |-> 0, type_id |-> 0]

\* C4: an insert whose range runs past the last address of the region that
\* contains its address returns false and changes neither the tree, nor any
\* region, nor the allocator's count.
C4_FailedInsertNoOp ==
    [][(/\ Insert
        /\ \E s \in TreeSlots(m_tree) :
              /\ SpanContains(region_heap[s], call.address)
              /\ call.address + call.size - 1 > region_heap[s].last_address)
              => /\ last'.ret = "false"
                 /\ UNCHANGED <<region_heap, num_regions, m_tree>>]_vars

C4_Witness ==
    /\ FullyCovered
    /\ Len(m_tree) >= 2
    /\ last.op = "Insert" /\ last.ret = "false"

\* C5: over pairwise non-overlapping regions, find and the mutable variant
\* return the region whose span holds the address, and null when none does.
ExpectedLookup(a) ==
    IF Holders(region_heap, m_tree, a) = {} THEN NULL
    ELSE CHOOSE s \in Holders(region_heap, m_tree, a) : TRUE

C5_PointLookup ==
    [][(DoFind \/ DoFindModifiable)
          => /\ Cardinality(Holders(region_heap, m_tree, call.address)) <= 1
             /\ last'.ret = ExpectedLookup(call.address)]_vars

C5_Witness ==
    /\ last.op = "Find"
    /\ Len(m_tree) = 3
    /\ last.ret # NULL
    /\ region_heap[last.ret].address < region_heap[last.ret].last_address

(***************************************************************************)
(* Properties of KMemoryRegion and of the arena.                           *)
(***************************************************************************)
\* C6: set_type(t) succeeds iff (type_id | t) = t held before the call; after
\* a successful call type_id = t, the region is derived from t, and every bit
\* of the old type_id is still set.
C6_TypeMonotonicity ==
    [][SetType =>
         LET old == region_heap[call.slot].type_id
             new == region_heap'[call.slot].type_id
             t == call.type
         IN  /\ (~fatal') <=> (BitOr(old, t) = t)
             /\ fatal' => new = old
             /\ ~fatal' => /\ new = t
                           /\ BitOr(new, t) = new
                           /\ BitOr(new, old) = new]_vars

C6_Witness ==
    /\ last.op = "SetType"
    /\ ~fatal
    /\ region_heap[last.ret].type_id = MaxTypeId

\* C7: the occupied count never exceeds the capacity; allocate at
\* count = capacity is fatal and stores nothing; a successful allocate
\* raises the count by exactly 1.
C7_ArenaCapacity ==
    /\ [](num_regions <= MaxMemoryRegions)
    /\ [][Allocate =>
            IF num_regions = MaxMemoryRegions
            THEN fatal' /\ UNCHANGED <<region_heap, num_regions>>
            ELSE ~fatal' /\ num_regions' = num_regions + 1]_vars

C7_Witness ==
    /\ fatal
    /\ last.op = "Allocate"
    /\ num_regions = MaxMemoryRegions
    /\ calls = MaxMemoryRegions + 1

\* C8: the i-th successful allocate returns slot i-1, a slot no earlier call
\* returned; it changes no slot returned earlier; no step lowers the count.
C8_NoReuse ==
    /\ [][Allocate /\ ~fatal' =>
            /\ last'.ret = calls - 1
            /\ last'.ret \notin 0..(calls - 2)
            /\ region_heap'[last'.ret] = call.region
            /\ \A j \in 0..(calls - 2) : region_heap'[j] = region_heap[j]]_vars
    /\ [][num_regions' >= num_regions]_vars

C8_Witness ==
    /\ last.op = "Allocate"
    /\ last.ret = MaxMemoryRegions - 1
    /\ region_heap[0] # region_heap[1]
    /\ region_heap[1] # region_heap[last.ret]

(***************************************************************************)
(* Properties of random placement.                                         *)
(***************************************************************************)
\* address a lies in a stored region whose type has every bit of type t
InMatching(a, t) ==
    \E s \in TreeSlots(m_tree) :
        /\ SpanContains(region_heap[s], a)
        /\ BitOr(region_heap[s].type_id, t) = region_heap[s].type_id

\* C9: an address r returned by get_random_aligned_region(size, align, type)
\* is a multiple of align, and every address of [r, r+size) lies in a stored
\* region matching type.
C9_RandomPlacement ==
    [][GetRandomAlignedRegion /\ ~fatal' =>
         /\ last'.ret % call.alignment = 0
         /\ \A a \in last'.ret..(last'.ret + call.size - 1) :
               InMatching(a, call.type_id)]_vars

C9_Witness ==
    /\ last.op = "GetRandomAlignedRegion"
    /\ ~fatal
    /\ last.ret = 2
    /\ Len(m_tree) = 3
    /\ \E s \in TreeSlots(m_tree) : region_heap[s].type_id = 0

MaxSeeded == 2

NextRandom ==
    \/ \E a \in Addresses, la \in Addresses, t \in LayoutTypes :
          num_regions < MaxSeeded /\ InvokeInsertDirectly(a, la, 0, t)
    \/ \E c \in RandomCalls : Invoke(c)
    \/ InsertDirectly
    \/ GetRandomAlignedRegion
    \/ Return

SpecRandomFair ==
    Init /\ [][NextRandom]_vars /\ WF_vars(GetRandomAlignedRegion)

\* no stored region with every bit of type t holds an aligned range of size
NoRoom(size, alignment, t) ==
    ~\E r \in 0..U64Max :
        /\ r % alignment = 0
        /\ \E s \in TreeSlots(m_tree) :
              /\ BitOr(region_heap[s].type_id, t) = region_heap[s].type_id
              /\ \A a \in r..(r + size - 1) : SpanContains(region_heap[s], a)

RECURSIVE FindFirstDerivedFrom(_, _, _, _)
FindFirstDerivedFrom(heap, tree, type_id, i) ==
    IF i > Len(tree) THEN NULL
    ELSE IF IsDerivedFrom(heap[tree[i]], type_id) THEN tree[i]
    ELSE FindFirstDerivedFrom(heap, tree, type_id, i + 1)

FindFirstDerived(heap, tree, type_id) == FindFirstDerivedFrom(heap, tree, type_id, 1)

RECURSIVE FindLastDerivedFrom(_, _, _, _, _)
FindLastDerivedFrom(heap, tree, type_id, i, region) ==
    IF i > Len(tree) THEN region
    ELSE FindLastDerivedFrom(heap, tree, type_id, i + 1,
             IF IsDerivedFrom(heap[tree[i]], type_id) THEN tree[i] ELSE region)

FindLastDerived(heap, tree, type_id) == FindLastDerivedFrom(heap, tree, type_id, 1, NULL)

\* DerivedRegionExtents, default constructed
NoExtents == [first_region |-> NULL, last_region |-> NULL]

\* the last region set only while it is still null
ExtentsVisitKeepsFirst(extents, slot) ==
    [first_region |-> IF extents.first_region = NULL THEN slot
                      ELSE extents.first_region,
     last_region |-> IF extents.last_region = NULL THEN slot
                     ELSE extents.last_region]

\* the body of the scan for a region derived from the type
ExtentsVisit(extents, slot) ==
    [first_region |-> IF extents.first_region = NULL THEN slot
                      ELSE extents.first_region,
     last_region |-> slot]

RECURSIVE ExtentsScan(_, _, _, _, _)
ExtentsScan(heap, tree, type_id, i, extents) ==
    IF i > Len(tree) THEN extents
    ELSE ExtentsScan(heap, tree, type_id, i + 1,
             IF IsDerivedFrom(heap[tree[i]], type_id)
             THEN ExtentsVisit(extents, tree[i])
             ELSE extents)

ExtentsGetAddress(heap, extents) == GetAddress(heap[extents.first_region])

ExtentsGetLastAddress(heap, extents) == GetLastAddress(heap[extents.last_region])

DoFindFirstDerived ==
    /\ call.op = "FindFirstDerived"
    /\ last' = [op |-> "FindFirstDerived",
                ret |-> FindFirstDerived(region_heap, m_tree, call.type_id)]
    /\ call' = NoCall
    /\ UNCHANGED <<region_heap, num_regions, m_tree, fatal, calls>>

DoFindLastDerived ==
    /\ call.op = "FindLastDerived"
    /\ last' = [op |-> "FindLastDerived",
                ret |-> FindLastDerived(region_heap, m_tree, call.type_id)]
    /\ call' = NoCall
    /\ UNCHANGED <<region_heap, num_regions, m_tree, fatal, calls>>

GetDerivedRegionExtents ==
    /\ call.op = "GetDerivedRegionExtents"
    /\ \E extents \in {ExtentsScan(region_heap, m_tree, call.type_id, 1, NoExtents)} :
          /\ fatal' = (extents.first_region = NULL \/ extents.last_region = NULL)
          /\ last' = [op |-> "GetDerivedRegionExtents", ret |-> extents]
    /\ call' = NoCall
    /\ UNCHANGED <<region_heap, num_regions, m_tree, calls>>

\* type ids of the seeded categories: 3 derives from 1 and from 2
DerivedTypes == {1, 2, 3}

DerivedCalls ==
    [op : {"FindFirstDerived", "FindLastDerived", "GetDerivedRegionExtents"},
     type_id : TypeIds]

NextDerived ==
    \/ \E a \in Addresses, la \in Addresses, t \in DerivedTypes :
          InvokeInsertDirectly(a, la, 0, t)
    \/ \E c \in DerivedCalls : Invoke(c)
    \/ InsertDirectly
    \/ DoFindFirstDerived
    \/ DoFindLastDerived
    \/ GetDerivedRegionExtents
    \/ Return

SpecDerived == Init /\ [][NextDerived]_vars

\* the stored regions whose type has every bit of t
DerivedSlots(t) ==
    {s \in TreeSlots(m_tree) : BitOr(region_heap[s].type_id, t) = region_heap[s].type_id}

LowestOf(S) ==
    IF S = {} THEN NULL
    ELSE CHOOSE s \in S : \A o \in S : region_heap[s].address <= region_heap[o].address

HighestOf(S) ==
    IF S = {} THEN NULL
    ELSE CHOOSE s \in S : \A o \in S : region_heap[o].address <= region_heap[s].address

\* C12: find_first_derived(t) returns the lowest-address stored region r with
\* (r.type_id | t) = r.type_id and find_last_derived(t) the highest-address
\* one, null if there is none; get_derived_region_extents(t) returns that
\* pair, with the first's address and the last's last address, and is fatal
\* exactly when no stored region is derived from t.
C12_DerivedExtents ==
    /\ [][DoFindFirstDerived
            => last'.ret = LowestOf(DerivedSlots(call.type_id))]_vars
    /\ [][DoFindLastDerived
            => last'.ret = HighestOf(DerivedSlots(call.type_id))]_vars
    /\ [][GetDerivedRegionExtents =>
            LET S == DerivedSlots(call.type_id)
            IN  /\ fatal' <=> (S = {})
                /\ last'.ret.first_region = LowestOf(S)
                /\ last'.ret.last_region = HighestOf(S)
                /\ S # {} =>
                     /\ ExtentsGetAddress(region_heap, last'.ret)
                          = region_heap[LowestOf(S)].address
                     /\ ExtentsGetLastAddress(region_heap, last'.ret)
                          = region_heap[HighestOf(S)].last_address]_vars

C12_Witness ==
    /\ last.op = "GetDerivedRegionExtents"
    /\ ~fatal
    /\ Len(m_tree) = 3
    /\ last.ret.first_region = m_tree[2]
    /\ last.ret.last_region = m_tree[3]
    /\ m_tree[1] > m_tree[2]

(***************************************************************************)
(* KMemoryRegionTree: the exact-match scans.                               *)
(***************************************************************************)
\* derivation taken for a match
TypeMatchesDerived(r, type_id) == BitOr(r.type_id, type_id) = r.type_id

\* it->GetType() == static_cast<u32>(type_id)
TypeMatches(r, type_id) == GetType(r) = type_id

\* it->GetType() == type_id && it->GetAttributes() == attr
TypeAndAttributeMatch(r, type_id, attr) ==
    GetType(r) = type_id /\ GetAttributes(r) = attr

RECURSIVE FindByTypeFrom(_, _, _, _)
FindByTypeFrom(heap, tree, type_id, i) ==
    IF i > Len(tree) THEN NULL
    ELSE IF TypeMatches(heap[tree[i]], type_id) THEN tree[i]
    ELSE FindByTypeFrom(heap, tree, type_id, i + 1)

FindByType(heap, tree, type_id) == FindByTypeFrom(heap, tree, type_id, 1)

RECURSIVE FindByTypeAndAttributeFrom(_, _, _, _, _)
FindByTypeAndAttributeFrom(heap, tree, type_id, attr, i) ==
    IF i > Len(tree) THEN NULL
    ELSE IF TypeAndAttributeMatch(heap[tree[i]], type_id, attr) THEN tree[i]
    ELSE FindByTypeAndAttributeFrom(heap, tree, type_id, attr, i + 1)

FindByTypeAndAttribute(heap, tree, type_id, attr) ==
    FindByTypeAndAttributeFrom(heap, tree, type_id, attr, 1)

DoFindByType ==
    /\ call.op = "FindByType"
    /\ last' = [op |-> "FindByType",
                ret |-> FindByType(region_heap, m_tree, call.type_id)]
    /\ call' = NoCall
    /\ UNCHANGED <<region_heap, num_regions, m_tree, fatal, calls>>

DoFindByTypeAndAttribute ==
    /\ call.op = "FindByTypeAndAttribute"
    /\ last' = [op |-> "FindByTypeAndAttribute",
                ret |-> FindByTypeAndAttribute(region_heap, m_tree,
                                               call.type_id, call.attr)]
    /\ call' = NoCall
    /\ UNCHANGED <<region_heap, num_regions, m_tree, fatal, calls>>

\* attributes and type ids of the seeded regions: type 3 is a strict
\* superset of type 1
SearchKinds == {<<0, 1>>, <<1, 1>>, <<0, 3>>}

SearchCalls ==
    [op : {"FindByType"}, type_id : TypeIds]
      \cup [op : {"FindByTypeAndAttribute"}, type_id : TypeIds, attr : Attrs]

NextSearch ==
    \/ \E a \in Addresses, la \in Addresses, k \in SearchKinds :
          InvokeInsertDirectly(a, la, k[1], k[2])
    \/ \E c \in SearchCalls : Invoke(c)
    \/ InsertDirectly
    \/ DoFindByType
    \/ DoFindByTypeAndAttribute
    \/ Return

SpecSearch == Init /\ [][NextSearch]_vars

\* C13: find_by_type(t) returns the lowest-address stored region whose
\* type_id equals t, and null when none has type_id = t (a strict superset of
\* t does not match); find_by_type_and_attribute(t, attr) returns the
\* lowest-address region with type_id = t and attributes = attr, else null.
C13_ExactMatch ==
    /\ [][DoFindByType =>
            last'.ret = LowestOf({s \in TreeSlots(m_tree) :
                                     region_heap[s].type_id = call.type_id})]_vars
    /\ [][DoFindByTypeAndAttribute =>
            last'.ret = LowestOf({s \in TreeSlots(m_tree) :
                                     /\ region_heap[s].type_id = call.type_id
                                     /\ region_heap[s].attributes = call.attr})]_vars

\* every stored type is a strict superset of each type that finds nothing
C13_Witness ==
    /\ last.op = "FindByType"
    /\ last.ret = NULL
    /\ Len(m_tree) = 3
    /\ \A s \in TreeSlots(m_tree) : region_heap[s].type_id = 3

(***************************************************************************)
(* Seeding with attributes, then splitting.                                *)
(***************************************************************************)
SeedInsertCalls ==
    [op : {"Insert"}, address : Addresses, size : Sizes, type_id : {1},
     new_attr : {1}, old_attr : {0}]

NextSeed ==
    \/ \E a \in Addresses, la \in Addresses, attr \in Attrs, t \in LayoutTypes :
          InvokeInsertDirectly(a, la, attr, t)
    \/ \E c \in SeedInsertCalls : Invoke(c)
    \/ InsertDirectly
    \/ Insert
    \/ Return

SpecSeed == Init /\ [][NextSeed]_vars

\* one region with the call's bounds, attr and type_id added, every stored
\* region as it was, the occupied count one higher
DirectFrame ==
    LET fresh == TreeSlots(m_tree') \ TreeSlots(m_tree)
    IN  /\ Cardinality(fresh) = 1
        /\ Len(m_tree') = Len(m_tree) + 1
        /\ NoDuplicates(m_tree')
        /\ \A f \in fresh :
              Shape(region_heap'[f]) =
                 [address |-> call.address, last_address |-> call.last_address,
                  attributes |-> call.attr, type_id |-> call.type_id]
        /\ TreeSlots(m_tree) \subseteq TreeSlots(m_tree')
        /\ \A s \in TreeSlots(m_tree) : region_heap'[s] = region_heap[s]
        /\ num_regions' = num_regions + 1

DirectDisjoint ==
    /\ call.address <= call.last_address
    /\ \A s \in TreeSlots(m_tree) :
          \/ call.last_address < region_heap[s].address
          \/ region_heap[s].last_address < call.address

\* C14 as stated: insert_directly with a range disjoint from all stored
\* regions always adds exactly one region with the given bounds, attr and
\* type_id, changes no stored region and raises the occupied count by 1.
C14_AsStated ==
    [][(InsertDirectly /\ DirectDisjoint) => DirectFrame]_vars

\* C14 (amended): the same while the occupied count is below the capacity;
\* at capacity the call ends in the fatal assertion and changes nothing.
C14_InsertDirectlyFrame ==
    [][(InsertDirectly /\ DirectDisjoint) =>
          IF num_regions < MaxMemoryRegions
          THEN ~fatal' /\ DirectFrame
          ELSE fatal' /\ UNCHANGED <<region_heap, num_regions, m_tree>>]_vars

C14_Witness ==
    /\ last.op = "InsertDirectly"
    /\ ~fatal
    /\ Len(m_tree) = 3
    /\ region_heap[last.ret].attributes = 1
    /\ region_heap[last.ret].type_id = 0
    /\ \E s \in TreeSlots(m_tree) : region_heap[s].type_id = 1

(***************************************************************************)
(* KMemoryRegion by each of its constructors, and its address queries.     *)
(***************************************************************************)
\* new (region) KMemoryRegion(std::forward<Args>(args)...)
Construct(c) ==
    CASE c.ctor = "default" -> DefaultRegion
      [] c.ctor = "bounds" -> Region2(c.address, c.last_address)
      [] c.ctor = "typed" ->
           Region4(c.address, c.last_address, c.attributes, c.type_id)
      [] c.ctor = "paired" ->
           Region5(c.address, c.last_address, c.pair_address, c.attributes,
                   c.type_id)

\* Allocate(args...) with the constructor arguments it forwards
AllocateArgs ==
    /\ call.op = "AllocateArgs"
    /\ IF AllocateInBounds(num_regions)
       THEN /\ region_heap' = AllocateHeap(region_heap, num_regions, Construct(call))
            /\ num_regions' = num_regions + 1
            /\ fatal' = FALSE
            /\ last' = [op |-> "AllocateArgs", ret |-> AllocateSlot(num_regions)]
       ELSE /\ fatal' = TRUE
            /\ last' = [op |-> "AllocateArgs", ret |-> NULL]
            /\ UNCHANGED <<region_heap, num_regions>>
    /\ call' = NoCall
    /\ UNCHANGED <<m_tree, calls>>

\* Contains(address) on the region in arena slot call.slot
Contains ==
    /\ call.op = "Contains"
    /\ LET r == region_heap[call.slot]
       IN  IF GetEndAddress(r) # 0
           THEN /\ fatal' = FALSE
                /\ last' = [op |-> "Contains",
                            ret |-> (GetAddress(r) <= call.address
                                       /\ call.address <= GetLastAddress(r))]
           ELSE /\ fatal' = TRUE
                /\ last' = [op |-> "Contains", ret |-> NULL]
    /\ call' = NoCall
    /\ UNCHANGED <<region_heap, num_regions, m_tree, calls>>

DoGetEndAddress ==
    /\ call.op = "GetEndAddress"
    /\ last' = [op |-> "GetEndAddress", ret |-> GetEndAddress(region_heap[call.slot])]
    /\ call' = NoCall
    /\ UNCHANGED <<region_heap, num_regions, m_tree, fatal, calls>>

DoGetSize ==
    /\ call.op = "GetSize"
    /\ last' = [op |-> "GetSize", ret |-> GetSize(region_heap[call.slot])]
    /\ call' = NoCall
    /\ UNCHANGED <<region_heap, num_regions, m_tree, fatal, calls>>

\* regions constructed in one run
MaxConstructed == 2

\* bounds with the lowest and the highest addresses of u64, and one pair
\* with the last address below the address (the constructors accept it)
CtorBounds ==
    {<<0, 0>>, <<0, 1>>, <<1, 1>>, <<1, U64Max - 1>>, <<0, U64Max>>,
     <<1, U64Max>>, <<U64Max, U64Max>>, <<2, 0>>}

ConstructCalls ==
    {[op |-> "AllocateArgs", ctor |-> "default"]}
      \cup {[op |-> "AllocateArgs", ctor |-> "bounds",
             address |-> b[1], last_address |-> b[2]] : b \in CtorBounds}
      \cup {[op |-> "AllocateArgs", ctor |-> "typed", address |-> b[1],
             last_address |-> b[2], attributes |-> 1, type_id |-> t] :
               b \in {<<0, 1>>, <<1, U64Max>>}, t \in {1, MaxTypeId}}
      \cup {[op |-> "AllocateArgs", ctor |-> "paired", address |-> 0,
             last_address |-> 1, pair_address |-> p, attributes |-> 0,
             type_id |-> 1] : p \in {0, 2, U64Max}}

ProbeAddresses == {0, 1, U64Max - 1, U64Max}

QueryCalls ==
    [op : {"Contains"}, slot : Slots, address : ProbeAddresses]
      \cup [op : {"GetEndAddress", "GetSize"}, slot : Slots]

NextConstruct ==
    \/ \E c \in ConstructCalls : num_regions < MaxConstructed /\ Invoke(c)
    \/ \E c \in QueryCalls : c.slot < num_regions /\ Invoke(c)
    \/ AllocateArgs
    \/ Contains
    \/ DoGetEndAddress
    \/ DoGetSize
    \/ Return

SpecConstruct == Init /\ [][NextConstruct]_vars

\* C15 as stated: a region constructed without an explicit pair address (by
\* default, from bounds only, or from bounds, attributes and type) has
\* pair_address equal to the maximum u64 value.
C15_AsStated ==
    [][(AllocateArgs /\ ~fatal' /\ call.ctor \in {"default", "bounds", "typed"})
          => region_heap'[last'.ret].pair_address = U64Max]_vars

\* C15 (amended): a region constructed from bounds, attributes and type has
\* pair_address equal to the maximum u64 value; one constructed by default or
\* from bounds only has pair_address 0; an explicit pair address is stored.
C15_PairAddressDefault ==
    [][(AllocateArgs /\ ~fatal') =>
          region_heap'[last'.ret].pair_address =
             CASE call.ctor = "typed" -> U64Max
               [] call.ctor \in {"default", "bounds"} -> 0
               [] call.ctor = "paired" -> call.pair_address]_vars

\* the typed constructor is the only one called with attributes 1
C15_Witness ==
    /\ last.op = "AllocateArgs"
    /\ ~fatal
    /\ region_heap[last.ret].attributes = 1
    /\ region_heap[last.ret].pair_address = U64Max
    /\ region_heap[0].pair_address = 0

TypeWithAttributeAssigned(type_id, attr) == attr

\* type_id |= attr
TypeWithAttribute(type_id, attr) == BitOr(type_id, attr)

\* SetTypeAttribute(attr) on the region in arena slot call.slot
SetTypeAttribute ==
    /\ call.op = "SetTypeAttribute"
    /\ region_heap' =
          [region_heap EXCEPT ![call.slot].type_id =
              TypeWithAttribute(region_heap[call.slot].type_id, call.attr)]
    /\ last' = [op |-> "SetTypeAttribute", ret |-> call.slot]
    /\ call' = NoCall
    /\ UNCHANGED <<num_regions, m_tree, fatal, calls>>

RetypeInsertCalls ==
    [op : {"Insert"}, address : Addresses, size : Sizes, type_id : {1, 3},
     new_attr : {0}, old_attr : {0}]

TypeAttributes == {1, 2}

SetTypeAttributeCalls == [op : {"SetTypeAttribute"}, slot : Slots, attr : TypeAttributes]

RetypeCalls == [op : {"SetType"}, slot : Slots, type : {1, 3}]

NextRetype ==
    \/ \E a \in Addresses, la \in Addresses, t \in LayoutTypes :
          num_regions < MaxSeeded /\ InvokeInsertDirectly(a, la, 0, t)
    \/ \E c \in RetypeInsertCalls : Invoke(c)
    \/ \E c \in RetypeCalls \cup SetTypeAttributeCalls :
          c.slot < num_regions /\ Invoke(c)
    \/ InsertDirectly
    \/ Insert
    \/ SetType
    \/ SetTypeAttribute
    \/ Return

SpecRetype == Init /\ [][NextRetype]_vars

\* C17: no step clears a type bit of a region; the piece an insert
\* reclassifies gets a type with every bit of the type of the region it was
\* cut from; set_type_attribute(attr) always succeeds, sets type_id to
\* type_id | attr, and has_type_attribute(attr) holds afterwards.
C17_TypeBitsGrow ==
    /\ [][\A s \in Slots :
            BitOr(region_heap'[s].type_id, region_heap[s].type_id)
               = region_heap'[s].type_id]_vars
    /\ [][(Insert /\ last'.ret = "true") =>
            \A s \in Holders(region_heap, m_tree, call.address) :
               \A f \in Holders(region_heap', m_tree', call.address) :
                  /\ region_heap'[f].type_id = call.type_id
                  /\ BitOr(region_heap[s].type_id, region_heap'[f].type_id)
                        = region_heap'[f].type_id]_vars
    /\ [][SetTypeAttribute =>
            LET old == region_heap[call.slot].type_id
                new == region_heap'[call.slot].type_id
            IN  /\ ~fatal'
                /\ new = BitOr(old, call.attr)
                /\ BitOr(new, call.attr) = new
                /\ HasTypeAttribute(region_heap'[call.slot], call.attr)]_vars

\* an attribute has been set on a region of a tree that an insert has split
C17_Witness ==
    /\ last.op = "SetTypeAttribute"
    /\ region_heap[last.ret].type_id = 3
    /\ Len(m_tree) = 3
    /\ calls = 2
    /\ \E s \in TreeSlots(m_tree) : region_heap[s].type_id = 0

(***************************************************************************)
(* Properties of the order and of the counts.                              *)
(***************************************************************************)
\* the zero-length probe that Find builds for a target address
Probe(target) == Region4(target, target, 0, 0)

\* C18: for a zero-length probe p at target and a stored region r,
\* Compare(p, r) is 0 iff r.address <= target <= r.last_address, -1 iff
\* target < r.address, +1 iff target > r.last_address; two distinct stored
\* regions a, b have Compare(a, b) # 0 and Compare(a, b) = -Compare(b, a);
\* at most one stored region compares equal to a probe.
C18_CompareOrder ==
    /\ \A target \in 0..U64Max :
          /\ \A s \in TreeSlots(m_tree) :
                LET r == region_heap[s]
                    c == Compare(Probe(target), r)
                IN  /\ c \in {-1, 0, 1}
                    /\ (c = 0) <=> (r.address <= target /\ target <= r.last_address)
                    /\ (c = -1) <=> (target < r.address)
                    /\ (c = 1) <=> (target > r.last_address)
          /\ Cardinality({s \in TreeSlots(m_tree) :
                            Compare(Probe(target), region_heap[s]) = 0}) <= 1
    /\ \A a \in TreeSlots(m_tree), b \in TreeSlots(m_tree) :
          a # b => /\ Compare(region_heap[a], region_heap[b]) # 0
                   /\ Compare(region_heap[a], region_heap[b])
                        = -Compare(region_heap[b], region_heap[a])

\* three stored regions, one of them longer than one address, whose last
\* address compares equal to it
C18_Witness ==
    /\ last.op = "InsertDirectly"
    /\ Len(m_tree) = 3
    /\ \E s \in TreeSlots(m_tree) :
          /\ region_heap[s].address < region_heap[s].last_address
          /\ Compare(Probe(region_heap[s].last_address), region_heap[s]) = 0
          /\ Compare(region_heap[s], Probe(region_heap[s].last_address)) # 0

\* the number of pieces an insert into the region holding its address leaves
InsertPieces ==
    LET S == Holders(region_heap, m_tree, call.address)
    IN  IF S = {} THEN 0
        ELSE Cardinality(SplitPieces(region_heap[CHOOSE s \in S : TRUE],
                                     call.address, call.size, call.type_id,
                                     call.new_attr))

\* C19: the number of regions stored in the tree equals the allocator's
\* occupied count; neither ever decreases; a failed insert leaves both
\* unchanged; a successful insert raises both by pieces - 1, which is 0, 1 or
\* 2, and happens only with occupied count + (pieces - 1) <= capacity.
C19_CountAccounting ==
    /\ [](/\ Len(m_tree) = num_regions
          /\ Cardinality(TreeSlots(m_tree)) = num_regions)
    /\ [][/\ num_regions' >= num_regions
          /\ Len(m_tree') >= Len(m_tree)]_vars
    /\ [][(Insert /\ last'.ret = "false")
            => UNCHANGED <<num_regions, m_tree>>]_vars
    /\ [][(Insert /\ last'.ret = "true") =>
            /\ num_regions' - num_regions \in {0, 1, 2}
            /\ num_regions' - num_regions = InsertPieces - 1
            /\ Len(m_tree') - Len(m_tree) = num_regions' - num_regions
            /\ num_regions + (InsertPieces - 1) <= MaxMemoryRegions]_vars

\* one seeded region cut into three by one insert fills the arena
C19_Witness ==
    /\ last.op = "Insert" /\ last.ret = "true"
    /\ calls = 2
    /\ num_regions = MaxMemoryRegions
    /\ Len(m_tree) = num_regions

\* C20: end = (last_address + 1) mod 2^64 and size = (end - address) mod
\* 2^64.  With address <= last_address < 2^64 - 1: end > address,
\* size = last_address - address + 1 >= 1, and contains does not assert.
\* end = 0 exactly when last_address = 2^64 - 1; then contains asserts, and
\* the region [0, 2^64 - 1] reports size 0.
C20_WrapOfEndAndSize ==
    /\ [][DoGetEndAddress =>
            LET r == region_heap[call.slot]
            IN  /\ last'.ret = (r.last_address + 1) % U64Modulus
                /\ (r.address <= r.last_address /\ r.last_address < U64Max)
                     => last'.ret > r.address
                /\ (last'.ret = 0) <=> (r.last_address = U64Max)]_vars
    /\ [][DoGetSize =>
            LET r == region_heap[call.slot]
                end == (r.last_address + 1) % U64Modulus
            IN  /\ last'.ret = (end - r.address + U64Modulus) % U64Modulus
                /\ (r.address <= r.last_address /\ r.last_address < U64Max)
                     => /\ last'.ret = r.last_address - r.address + 1
                        /\ last'.ret >= 1
                /\ (r.address = 0 /\ r.last_address = U64Max)
                     => last'.ret = 0]_vars
    /\ [][Contains =>
            LET r == region_heap[call.slot]
            IN  /\ (r.address <= r.last_address /\ r.last_address < U64Max)
                     => ~fatal'
                /\ (r.last_address = U64Max) => fatal']_vars

\* the region [0, 2^64 - 1] has reported size 0
C20_Witness ==
    /\ last.op = "GetSize"
    /\ last.ret = 0
    /\ num_regions = 1
    /\ region_heap[0].address = 0
    /\ region_heap[0].last_address = U64Max

====
